---- MODULE Spec2Model ----
(***************************************************************************)
(* domc.py: create / destroy / restore of one droplet and its volume       *)
(* against the DigitalOcean API.  One process run executes one             *)
(* sub-command; the provider completes the asynchronous actions (create,   *)
(* shutdown, snapshot, detach) on its own schedule, and every provider     *)
(* call may raise.  Runs follow each other; snapshot_info.json and the     *)
(* provider's resources are what one run leaves to the next.               *)
(***************************************************************************)
EXTENDS Integers, Sequences, FiniteSets, TLC

\* Number of process runs explored one after the other.
MaxRuns == 2

\* The snapshot ID held by a snapshot_info.json left by an earlier session.
StaleSnapshot == 90

\* Python's None (also the id of a Droplet object whose create() raised).
None == 0

\* image='fedora-39-x64' of create_droplet, as an image number.
BaseImage == 0

\* config['VOLUME'], the volume ID restore attaches.
ConfigVolume == 1

\* The volume-ID lists droplet 1 may carry when the session starts.
InitVolumeIds == {{}, {1, 2}}

\* The actions, all completed, that droplet 1 may have had after its creation
\* when the session starts (it was shut down, snapshotted and powered on again).
InitHistories == {<<>>, <<"shutdown", "snapshot">>}

\* The volumes existing on the provider when the session starts.
InitVolumes == 2

VARIABLES
    \* ---- provider (remote) state
    droplets,       \* sequence; droplets[d] = [alive, image, volume_ids, actions]
    nVolumes,       \* volumes 1..nVolumes exist (no operation deletes one)
    snapshots,      \* the account's snapshot listing: sequence of [name, id]
    detaching,      \* detach requests accepted and not yet carried out: {<<d, v>>}
    \* ---- local durable state
    file,           \* snapshot_info.json: [exists, content], content a dict
    \* ---- the current process run
    run,            \* number of runs started; also the clock of datetime.now()
    token,          \* TRUE iff DO_API_TOKEN holds a valid credential
    command,        \* sys.argv[1].lower(), or "none"
    skip_snapshot,  \* '-s' in sys.argv
    pc,             \* position of the run
    droplet_id,     \* the droplet the run works on (None before it has one)
    volume_ids,     \* droplet.volume_ids as loaded at line 179 (a list)
    idx,            \* position of the for loops of lines 181 and 188
    snapshot_name,  \* line 197
    snapshot_id,    \* the local of restore (line 134)
    volume,         \* volume.id of create (line 238) or config['VOLUME']
    exc,            \* the exception in flight or propagated ("none" if none)
    exitcode,       \* process exit status (-1 while running)
    reported,       \* the messages this run logged/printed
    \* ---- history of the current run (what an instrumented provider records)
    calls,          \* provider mutation calls issued, in order
    reads,          \* provider read calls issued
    confirmed,      \* volumes whose detach-confirmation poll has ended, in order
    lastFetch,      \* what the latest poll iteration fetched
    deletedWith,    \* the volume IDs the droplet still listed when it was deleted
    myAction,       \* index in droplets[droplet_id].actions of the action this run awaits
    file0,          \* snapshot_info.json as it was when the run started
    lastWritten     \* the ID of the latest update_snapshot_info (None if there was none)

provVars == <<droplets, nVolumes, snapshots, detaching>>
argVars  == <<run, token, command, skip_snapshot, file0>>
vars == <<droplets, nVolumes, snapshots, detaching, file, run, token, command,
          skip_snapshot, pc, droplet_id, volume_ids, idx, snapshot_name,
          snapshot_id, volume, exc, exitcode, reported, calls, reads,
          confirmed, lastFetch, myAction, file0, lastWritten, deletedWith>>

----------------------------------------------------------------------------
\* Helpers

Range(s) == {s[k] : k \in 1..Len(s)}

\* The orders in which the API may list the members of S.
Lists(S) == {s \in [1..Cardinality(S) -> S] : \A a, b \in 1..Cardinality(S) : a # b => s[a] # s[b]}

NoName == <<>>
NoFetch == [kind |-> "none", target |-> "none", seen |-> {}, own |-> "none", ended |-> FALSE]

Action(type, status, name) == [type |-> type, status |-> status, name |-> name]

\* What the provider keeps of a deleted droplet: nothing but its ID being used up.
Deleted == [alive |-> FALSE, image |-> None, volume_ids |-> {}, actions |-> <<>>]

Exists(d) == d \in 1..Len(droplets) /\ droplets[d].alive

\* A provider call succeeds or raises; without a valid token it always raises.
Outcomes == IF token THEN {TRUE, FALSE} ELSE {FALSE}

\* A dict of snapshot_info.json is a set of <<key, value>> pairs.
EmptyDict == {}

DictGet(dict, key) ==
    IF \E p \in dict : p[1] = key THEN (CHOOSE p \in dict : p[1] = key)[2] ELSE None

----------------------------------------------------------------------------
\* Pure pieces of the script

\* read_snapshot_info (lines 38-44): {} if the file does not exist.
read_snapshot_info(f) == IF ~f.exists THEN EmptyDict ELSE f.content

\* Variant: the writer uses another key than the reader looks up.
update_snapshot_info_OtherKey(id) == [exists |-> TRUE, content |-> {<<"SNAPSHOT", id>>}]

\* update_snapshot_info (lines 46-50): the file after json.dump.
update_snapshot_info(id) == [exists |-> TRUE, content |-> {<<"SNAPSHOT_ID", id>>}]

\* Variant: the status of the entry is not looked at.
ActionMatches_AnyStatus(action, action_type) == action.type = action_type

\* Variant: an errored entry of the awaited type ends the poll too.
ActionMatches_Terminal(action, action_type) ==
    action.type = action_type /\ action.status \in {"completed", "errored"}

\* Lines 56-60: an entry of the awaited type with status 'completed'.
ActionMatches(action, action_type) ==
    action.type = action_type /\ action.status = "completed"

ActionComplete(actions, action_type) ==
    \E k \in 1..Len(actions) : ActionMatches(actions[k], action_type)

\* Variant: the poll ends at its first reload, whatever the list holds.
VolumeDetached_Unchecked(ids, volume_id) == TRUE

\* Variant: the poll ends only once the droplet lists no volume at all.
VolumeDetached_AllGone(ids, volume_id) == ids = {}

\* Line 69: the volume ID is absent from the reloaded droplet's list.
VolumeDetached(ids, volume_id) == volume_id \notin ids

\* Line 197: Snapshot-<droplet.id>-<timestamp>.
SnapshotName(d, timestamp) == <<d, timestamp>>

\* Line 207: next((snap for snap in snapshots if snap.name == name), None).
RECURSIVE FirstMatch(_, _)
FirstMatch(snaps, name) ==
    IF snaps = <<>> THEN None
    ELSE IF Head(snaps).name = name THEN Head(snaps).id
    ELSE FirstMatch(Tail(snaps), name)

\* Variant: a missing snapshot ID is not detected.
NoSnapshotId_Undetected(id) == FALSE

\* Line 136: not snapshot_id.
NoSnapshotId(id) == id = None

\* Variant: the -s flag is ignored.
SkipRequested_Ignored(flag) == FALSE

\* Line 191: if skip_snapshot.
SkipRequested(flag) == flag

\* Variant: a snapshot that is not found ends the function.
AfterResolve_Fatal(my_snapshot) == IF my_snapshot = None THEN "done" ELSE "d_destroy"

\* Variant: NotFoundError is reported and the function goes on.
AfterNotFound_GoesOn == "r_keys"

\* Lines 144-147: NotFoundError is reported and the function returns.
AfterNotFound == "done"

\* Lines 209-222: found or not, the function goes on to droplet.destroy().
AfterResolve(my_snapshot) == "d_destroy"

\* Variant: the exception of a failed cleanup replaces the original one.
AfterCleanup_Masking(original, cleanup_failed) ==
    IF cleanup_failed THEN "cleanup raised" ELSE original

\* Lines 76-81 and 126-129: the exception that leaves create_droplet is the one
\* raised in the try block, whether or not the cleanup failed (its own
\* exception is caught and logged inside cleanup_droplet).
AfterCleanup(original, cleanup_failed) == original

\* Variant: the loops stop after their first element.
LoopDone_AfterFirst(k, list) == k > 1

\* Variant: the finally clause does not test that a Droplet object was built.
NeedsCleanup_NoObjectTest(droplet_built, creation_successful) == ~creation_successful

\* Line 128: if droplet and not creation_successful.
NeedsCleanup(droplet_built, creation_successful) == droplet_built /\ ~creation_successful

\* Variant: the lookup hands back a Droplet object for an unknown ID.
AfterLookup_Unchecked(found) == "d_shutdown"

\* Line 168: manager.get_droplet raises NotFoundError for an unknown ID, which
\* ends shutdown_and_snapshot; otherwise the run goes on to the shutdown.
AfterLookup(found) == IF found THEN "d_shutdown" ELSE "done"

\* Lines 181 and 188: the for loops end after the last element.
LoopDone(k, list) == k > Len(list)

----------------------------------------------------------------------------
Init ==
    /\ \E ids \in InitVolumeIds, hist \in InitHistories :
          droplets = << [alive |-> TRUE, image |-> BaseImage, volume_ids |-> ids,
                         actions |-> <<Action("create", "completed", NoName)>> \o
                                     [k \in 1..Len(hist) |-> Action(hist[k], "completed", NoName)]] >>
    /\ nVolumes = InitVolumes
    /\ snapshots = <<>>
    /\ detaching = {}
    /\ file \in {[exists |-> FALSE, content |-> EmptyDict],
                 [exists |-> TRUE, content |-> EmptyDict],
                 update_snapshot_info(StaleSnapshot)}
    /\ run = 0
    /\ token = TRUE
    /\ command = "none"
    /\ skip_snapshot = FALSE
    /\ pc = "idle"
    /\ droplet_id = None
    /\ volume_ids = <<>>
    /\ idx = 1
    /\ snapshot_name = NoName
    /\ snapshot_id = None
    /\ volume = None
    /\ exc = "none"
    /\ exitcode = -1
    /\ reported = {}
    /\ calls = <<>>
    /\ reads = {}
    /\ confirmed = <<>>
    /\ lastFetch = NoFetch
    /\ myAction = 0
    /\ deletedWith = {}
    /\ file0 = file
    /\ lastWritten = DictGet(read_snapshot_info(file), "SNAPSHOT_ID")


----------------------------------------------------------------------------
\* Shared pieces of the run's steps

Call(op, id, image, vol) == [op |-> op, id |-> id, image |-> image, volume |-> vol]

\* Lines 250-256: an exception reaches the top level, is logged and printed,
\* and the process exits with status 1.
Raise(site) ==
    /\ pc' = "done"
    /\ exc' = site
    /\ exitcode' = 1
    /\ reported' = reported \cup {"An error occurred"}

\* The droplet's action list with one more action, just requested.
WithAction(d, type, name) ==
    [droplets EXCEPT ![d].actions = Append(@, Action(type, "in-progress", name))]

\* One iteration of the while loop of wait_for_action_completion (lines 54-61)
\* that fetched the action list: the loop ends iff a completed entry of the
\* awaited type is listed.
PollActions(action_type, next) ==
    /\ reads' = reads \cup {<<"get_actions", droplet_id>>}
    /\ pc' = IF ActionComplete(droplets[droplet_id].actions, action_type) THEN next ELSE pc
    /\ lastFetch' = [kind |-> "actions", target |-> action_type,
                     seen |-> {<<a.type, a.status>> : a \in Range(droplets[droplet_id].actions)},
                     own |-> droplets[droplet_id].actions[myAction].status,
                     ended |-> pc' # pc]

\* Variant: the droplet is requested without the volume.
NewDroplet_Unattached(image, vol) ==
    [alive |-> TRUE, image |-> image, volume_ids |-> {},
     actions |-> <<Action("create", "in-progress", NoName)>>]

\* A droplet just created with the volume attached (lines 107-115, 152-160).
NewDroplet(image, vol) ==
    [alive |-> TRUE, image |-> image, volume_ids |-> {vol},
     actions |-> <<Action("create", "in-progress", NoName)>>]

\* The provider attaches a volume at creation only if the volume exists and
\* no live droplet holds it (a volume is attached to at most one droplet).
Attachable(vol) ==
    /\ vol \in 1..nVolumes
    /\ \A d \in 1..Len(droplets) : ~(droplets[d].alive /\ vol \in droplets[d].volume_ids)

SnapshotExists(id) == \E k \in 1..Len(snapshots) : snapshots[k].id = id

----------------------------------------------------------------------------
\* main (lines 226-248)

ConfigStates == {"ok", "missing", "malformed", "no_volume"}
Commands == {"create", "destroy", "restore", "bogus", "none"}

\* Variant: an unrecognised sub-command falls into the first branch.
Dispatch_Default(cmd) ==
    CASE cmd = "destroy" -> "d_lookup"
      [] cmd = "restore" -> "r_read"
      [] OTHER -> "c_volume"

\* Lines 237-248: the if/elif chain on the sub-command; the else branch prints
\* "Invalid command." and exits.
Dispatch(cmd) ==
    CASE cmd = "create" -> "c_volume"
      [] cmd = "destroy" -> "d_lookup"
      [] cmd = "restore" -> "r_read"
      [] OTHER -> "done"

Main ==
    /\ pc = "idle"
    /\ run < MaxRuns
    /\ \E cfg \in ConfigStates, tok \in BOOLEAN, cmd \in Commands,
          flag \in BOOLEAN, id \in 1..(Len(droplets) + 1) :
          /\ (cmd # "destroy" \/ cfg # "ok") => (~flag /\ id = 1)
          /\ cfg # "ok" => tok
          /\ run' = run + 1
          /\ token' = tok
          /\ command' = cmd
          /\ skip_snapshot' = flag
          /\ file0' = file
          /\ droplet_id' = IF cmd = "destroy" /\ cfg = "ok" THEN id ELSE None
          /\ volume' = IF cmd = "restore" /\ cfg = "ok" THEN ConfigVolume ELSE None
          /\ IF cfg # "ok"
             THEN \* read_config raises (lines 22-34)
                  /\ pc' = "done" /\ exc' = "config" /\ exitcode' = 1
                  /\ reported' = {"An error occurred"}
             ELSE IF cmd = "none"
             THEN \* lines 231-233
                  /\ pc' = "done" /\ exc' = "none" /\ exitcode' = 1
                  /\ reported' = {"Usage"}
             ELSE IF Dispatch(cmd) = "done"
             THEN \* lines 246-248
                  /\ pc' = "done" /\ exc' = "none" /\ exitcode' = 1
                  /\ reported' = {"Invalid command"}
             ELSE /\ pc' = Dispatch(cmd)
                  /\ exc' = "none" /\ exitcode' = -1 /\ reported' = {}
    /\ UNCHANGED <<provVars, file, lastWritten, volume_ids, idx, snapshot_name,
                   snapshot_id, calls, reads, confirmed, lastFetch, myAction, deletedWith>>

\* The process has exited: its locals, and what was recorded of the run, are gone.
\* snapshot_info.json and the provider's resources stay.
Exit ==
    /\ pc = "done"
    /\ pc' = "idle"
    /\ command' = "none"
    /\ skip_snapshot' = FALSE
    /\ token' = TRUE
    /\ droplet_id' = None
    /\ volume' = None
    /\ volume_ids' = <<>>
    /\ idx' = 1
    /\ snapshot_name' = NoName
    /\ snapshot_id' = None
    /\ exc' = "none"
    /\ exitcode' = -1
    /\ reported' = {}
    /\ calls' = <<>>
    /\ reads' = {}
    /\ confirmed' = <<>>
    /\ lastFetch' = NoFetch
    /\ myAction' = 0
    /\ deletedWith' = {}
    /\ file0' = file
    /\ UNCHANGED <<provVars, file, run, lastWritten>>

----------------------------------------------------------------------------
\* shutdown_and_snapshot (lines 167-224)

\* Line 168: manager.get_droplet(droplet_id).
GetDroplet ==
    /\ pc = "d_lookup"
    /\ reads' = reads \cup {<<"get_droplet", droplet_id>>}
    /\ \E ok \in Outcomes :
          IF ok /\ AfterLookup(Exists(droplet_id)) # "done"
          THEN pc' = AfterLookup(Exists(droplet_id)) /\ UNCHANGED <<exc, exitcode, reported>>
          ELSE Raise(IF ok THEN "NotFound" ELSE "ProviderError")
    /\ UNCHANGED <<provVars, file, argVars, droplet_id, volume_ids, idx, snapshot_name,
                   snapshot_id, volume, calls, confirmed, lastFetch, myAction, lastWritten, deletedWith>>

\* Line 171: droplet.shutdown().
Shutdown ==
    /\ pc = "d_shutdown"
    /\ calls' = Append(calls, Call("shutdown", droplet_id, None, None))
    /\ \E ok \in Outcomes :
          IF ok
          THEN /\ droplets' = WithAction(droplet_id, "shutdown", NoName)
               /\ myAction' = Len(droplets[droplet_id].actions) + 1
               /\ pc' = "d_wait_shutdown"
               /\ UNCHANGED <<exc, exitcode, reported>>
          ELSE /\ Raise("ProviderError")
               /\ UNCHANGED <<droplets, myAction>>
    /\ lastFetch' = NoFetch
    /\ UNCHANGED <<nVolumes, snapshots, detaching, file, argVars, droplet_id, volume_ids,
                   idx, snapshot_name, snapshot_id, volume, reads, confirmed, lastWritten, deletedWith>>

\* Line 176: wait_for_action_completion(droplet, 'shutdown'), one iteration.
WaitShutdown ==
    /\ pc = "d_wait_shutdown"
    /\ \E ok \in Outcomes :
          IF ok
          THEN PollActions("shutdown", "d_load") /\ UNCHANGED <<exc, exitcode, reported>>
          ELSE Raise("ProviderError") /\ UNCHANGED <<reads, lastFetch>>
    /\ UNCHANGED <<provVars, file, argVars, droplet_id, volume_ids, idx, snapshot_name,
                   snapshot_id, volume, calls, confirmed, myAction, lastWritten, deletedWith>>

\* Lines 179-180: droplet.load(), then if droplet.volume_ids.
LoadDroplet ==
    /\ pc = "d_load"
    /\ \E ok \in Outcomes :
          IF ok
          THEN /\ \E l \in Lists(droplets[droplet_id].volume_ids) :
                     /\ volume_ids' = l
                     /\ pc' = IF l # <<>> THEN "d_detach" ELSE "d_branch"
               /\ UNCHANGED <<exc, exitcode, reported>>
          ELSE Raise("ProviderError") /\ UNCHANGED volume_ids
    /\ idx' = 1
    /\ reads' = reads \cup {<<"load", droplet_id>>}
    /\ UNCHANGED <<provVars, file, argVars, droplet_id, snapshot_name, snapshot_id,
                   volume, calls, confirmed, lastFetch, myAction, lastWritten, deletedWith>>

\* Lines 181-185: one pass of the first for loop: manager.get_volume, volume.detach.
Detach ==
    /\ pc = "d_detach"
    /\ reads' = reads \cup {<<"get_volume", volume_ids[idx]>>}
    /\ \E outcome \in {"ok", "get_volume raises", "detach raises"} :
          CASE outcome = "ok" ->
                  /\ detaching' = detaching \cup {<<droplet_id, volume_ids[idx]>>}
                  /\ calls' = Append(calls, Call("detach", volume_ids[idx], None, None))
                  /\ IF LoopDone(idx + 1, volume_ids)
                     THEN pc' = "d_wait_detach" /\ idx' = 1
                     ELSE pc' = pc /\ idx' = idx + 1
                  /\ UNCHANGED <<exc, exitcode, reported>>
            [] outcome = "get_volume raises" ->
                  /\ Raise("ProviderError")
                  /\ UNCHANGED <<detaching, calls, idx>>
            [] outcome = "detach raises" ->
                  /\ Raise("ProviderError")
                  /\ calls' = Append(calls, Call("detach", volume_ids[idx], None, None))
                  /\ UNCHANGED <<detaching, idx>>
    /\ lastFetch' = NoFetch
    /\ UNCHANGED <<droplets, nVolumes, snapshots, file, argVars, droplet_id, volume_ids,
                   snapshot_name, snapshot_id, volume, confirmed, myAction, lastWritten, deletedWith>>

\* Lines 188-189 with 65-73: one iteration of wait_for_volume_detachment for
\* volume_ids[idx]: reload the droplet, end the poll iff the volume is absent.
WaitDetach ==
    /\ pc = "d_wait_detach"
    /\ \E ok \in Outcomes :
          IF ok
          THEN /\ reads' = reads \cup {<<"get_droplet", droplet_id>>}
               /\ IF VolumeDetached(droplets[droplet_id].volume_ids, volume_ids[idx])
                  THEN /\ confirmed' = Append(confirmed, volume_ids[idx])
                       /\ IF LoopDone(idx + 1, volume_ids)
                          THEN pc' = "d_branch" /\ idx' = 1
                          ELSE pc' = pc /\ idx' = idx + 1
                  ELSE UNCHANGED <<confirmed, pc, idx>>
               /\ lastFetch' = [kind |-> "volume", target |-> volume_ids[idx],
                                seen |-> droplets[droplet_id].volume_ids,
                                own |-> "none",
                                ended |-> confirmed' # confirmed]
               /\ UNCHANGED <<exc, exitcode, reported>>
          ELSE Raise("ProviderError") /\ UNCHANGED <<reads, lastFetch, confirmed, idx>>
    /\ UNCHANGED <<provVars, file, argVars, droplet_id, volume_ids, snapshot_name,
                   snapshot_id, volume, calls, myAction, lastWritten, deletedWith>>

\* Lines 191-193: the snapshot is skipped.
SkipSnapshot ==
    /\ pc = "d_branch"
    /\ SkipRequested(skip_snapshot)
    /\ pc' = "d_destroy"
    /\ reported' = reported \cup {"Skipping snapshot creation"}
    /\ UNCHANGED <<provVars, file, argVars, droplet_id, volume_ids, idx, snapshot_name,
                   snapshot_id, volume, exc, exitcode, calls, reads, confirmed,
                   lastFetch, myAction, lastWritten, deletedWith>>

\* Lines 196-201: name the snapshot and request it.
TakeSnapshot ==
    /\ pc = "d_branch"
    /\ ~SkipRequested(skip_snapshot)
    /\ snapshot_name' = SnapshotName(droplet_id, run)
    /\ calls' = Append(calls, Call("snapshot", droplet_id, None, None))
    /\ \E ok \in Outcomes :
          IF ok
          THEN /\ droplets' = WithAction(droplet_id, "snapshot", snapshot_name')
               /\ myAction' = Len(droplets[droplet_id].actions) + 1
               /\ pc' = "d_wait_snapshot"
               /\ UNCHANGED <<exc, exitcode, reported>>
          ELSE /\ Raise("ProviderError")
               /\ UNCHANGED <<droplets, myAction>>
    /\ lastFetch' = NoFetch
    /\ UNCHANGED <<nVolumes, snapshots, detaching, file, argVars, droplet_id, volume_ids,
                   idx, snapshot_id, volume, reads, confirmed, lastWritten, deletedWith>>

\* Line 203: wait_for_action_completion(droplet, 'snapshot'), one iteration.
WaitSnapshot ==
    /\ pc = "d_wait_snapshot"
    /\ \E ok \in Outcomes :
          IF ok
          THEN PollActions("snapshot", "d_resolve") /\ UNCHANGED <<exc, exitcode, reported>>
          ELSE Raise("ProviderError") /\ UNCHANGED <<reads, lastFetch>>
    /\ UNCHANGED <<provVars, file, argVars, droplet_id, volume_ids, idx, snapshot_name,
                   snapshot_id, volume, calls, confirmed, myAction, lastWritten, deletedWith>>

\* Lines 206-219: resolve the snapshot by name and save its ID, or report
\* that no snapshot has the name.
ResolveSnapshot ==
    /\ pc = "d_resolve"
    /\ reads' = reads \cup {<<"get_all_snapshots", None>>}
    /\ \E ok \in Outcomes :
          IF ok
          THEN /\ LET my_snapshot == FirstMatch(snapshots, snapshot_name) IN
                  IF my_snapshot # None
                  THEN /\ file' = update_snapshot_info(my_snapshot)
                       /\ lastWritten' = my_snapshot
                       /\ reported' = reported \cup {"Snapshot completed"}
                  ELSE /\ reported' = reported \cup {"No snapshot with name found"}
                       /\ UNCHANGED <<file, lastWritten>>
               /\ pc' = AfterResolve(FirstMatch(snapshots, snapshot_name))
               /\ UNCHANGED <<exc, exitcode>>
          ELSE Raise("ProviderError") /\ UNCHANGED <<file, lastWritten>>
    /\ UNCHANGED <<provVars, argVars, droplet_id, volume_ids, idx, snapshot_name,
                   snapshot_id, volume, calls, confirmed, lastFetch, myAction, deletedWith>>

\* Lines 222-224: droplet.destroy().
DestroyDroplet ==
    /\ pc = "d_destroy"
    /\ calls' = Append(calls, Call("destroy", droplet_id, None, None))
    /\ \E ok \in Outcomes :
          IF ok
          THEN /\ droplets' = [droplets EXCEPT ![droplet_id] = Deleted]
               /\ deletedWith' = droplets[droplet_id].volume_ids
               /\ detaching' = {p \in detaching : p[1] # droplet_id}
               /\ pc' = "done"
               /\ exitcode' = 0
               /\ reported' = reported \cup {"Droplet destroyed"}
               /\ UNCHANGED exc
          ELSE Raise("ProviderError") /\ UNCHANGED <<droplets, detaching, deletedWith>>
    /\ UNCHANGED <<nVolumes, snapshots, file, argVars, droplet_id, volume_ids, idx,
                   snapshot_name, snapshot_id, volume, reads, confirmed, lastFetch,
                   myAction, lastWritten>>

----------------------------------------------------------------------------
\* create: create_volume (lines 91-99) and create_droplet (lines 101-129)

\* Lines 92-98: volume.create().
CreateVolume ==
    /\ pc = "c_volume"
    /\ \E ok \in Outcomes :
          IF ok
          THEN /\ nVolumes' = nVolumes + 1
               /\ volume' = nVolumes + 1
               /\ calls' = Append(calls, Call("create_volume", nVolumes + 1, None, None))
               /\ pc' = "c_keys"
               /\ UNCHANGED <<exc, exitcode, reported>>
          ELSE /\ Raise("ProviderError")
               /\ calls' = Append(calls, Call("create_volume", None, None, None))
               /\ UNCHANGED <<nVolumes, volume>>
    /\ UNCHANGED <<droplets, snapshots, detaching, file, argVars, droplet_id, volume_ids,
                   idx, snapshot_name, snapshot_id, reads, confirmed, lastFetch, myAction,
                   lastWritten, deletedWith>>

\* Lines 124-129: an exception in the try block of create_droplet is logged;
\* the finally clause goes to cleanup_droplet if a Droplet object was built,
\* and the exception propagates to the top level.
FailCreate(site, droplet_built) ==
    /\ exc' = site
    /\ IF NeedsCleanup(droplet_built, FALSE)
       THEN /\ pc' = "c_cleanup"
            /\ reported' = reported \cup {"Error during droplet creation"}
            /\ UNCHANGED exitcode
       ELSE /\ pc' = "done"
            /\ exitcode' = 1
            /\ reported' = reported \cup {"Error during droplet creation", "An error occurred"}

\* Line 106: manager.get_all_sshkeys().  When it raises, droplet is still None:
\* the finally clause (lines 127-129) cleans nothing up and the error propagates.
GetKeys ==
    /\ pc = "c_keys"
    /\ reads' = reads \cup {<<"get_all_sshkeys", None>>}
    /\ \E ok \in Outcomes :
          IF ok
          THEN pc' = "c_create" /\ UNCHANGED <<exc, exitcode, reported>>
          ELSE FailCreate("get_all_sshkeys raised", FALSE)
    /\ UNCHANGED <<provVars, file, argVars, droplet_id, volume_ids, idx, snapshot_name,
                   snapshot_id, volume, calls, confirmed, lastFetch, myAction, lastWritten,
                   deletedWith>>

\* Lines 107-117: build the Droplet object and droplet.create().  When create()
\* raises, the object exists (it is truthy) and its id is None.
CreateDroplet ==
    /\ pc = "c_create"
    /\ \E ok \in Outcomes :
          IF ok
          THEN /\ droplets' = Append(droplets, NewDroplet(BaseImage, volume))
               /\ droplet_id' = Len(droplets) + 1
               /\ myAction' = 1
               /\ calls' = Append(calls, Call("create_droplet", Len(droplets) + 1, BaseImage, volume))
               /\ pc' = "c_wait"
               /\ UNCHANGED <<exc, exitcode, reported>>
          ELSE /\ calls' = Append(calls, Call("create_droplet", None, BaseImage, volume))
               /\ FailCreate("droplet.create raised", TRUE)
               /\ UNCHANGED <<droplets, droplet_id, myAction>>
    /\ lastFetch' = NoFetch
    /\ UNCHANGED <<nVolumes, snapshots, detaching, file, argVars, volume_ids, idx,
                   snapshot_name, snapshot_id, volume, reads, confirmed,
                   lastWritten, deletedWith>>

\* Lines 119-122: wait_for_action_completion(droplet, 'create'), one iteration;
\* once it ends, creation_successful is set and main returns.
WaitCreate ==
    /\ pc = "c_wait"
    /\ \E ok \in Outcomes :
          IF ok
          THEN /\ PollActions("create", "done")
               /\ exitcode' = IF pc' = "done" THEN 0 ELSE exitcode
               /\ UNCHANGED <<exc, reported>>
          ELSE /\ FailCreate("poll raised", TRUE)
               /\ UNCHANGED <<reads, lastFetch>>
    /\ UNCHANGED <<provVars, file, argVars, droplet_id, volume_ids, idx, snapshot_name,
                   snapshot_id, volume, calls, confirmed, myAction, lastWritten, deletedWith>>

\* Variant: the finally clause also removes the volume made for the droplet.
VolumesAfterCleanup_Removed(n, vol) == IF vol = n THEN n - 1 ELSE n

\* Lines 128-129: the finally clause calls cleanup_droplet only; cleanup_volume
\* (lines 83-89) is called from nowhere, so the account's volumes stay.
VolumesAfterCleanup(n, vol) == n

\* The exception of create_droplet leaves the finally clause and reaches the
\* top level (lines 126, 250-256): exc is the one raised in the try block.
Propagate(cleanup_failed) ==
    /\ pc' = "done"
    /\ exitcode' = 1
    /\ exc' = AfterCleanup(exc, cleanup_failed)
    /\ nVolumes' = VolumesAfterCleanup(nVolumes, volume)

\* Lines 128-129 and 76-77: cleanup_droplet looks the droplet up by droplet.id.
\* A failed lookup (always, for id None) is logged at line 81 and ends the cleanup.
CleanupLookup ==
    /\ pc = "c_cleanup"
    /\ reads' = reads \cup {<<"get_droplet", droplet_id>>}
    /\ \E ok \in Outcomes :
          IF ok /\ Exists(droplet_id)
          THEN pc' = "c_cleanup_destroy" /\ UNCHANGED <<exc, exitcode, reported, nVolumes>>
          ELSE /\ Propagate(TRUE)
               /\ reported' = reported \cup {"Failed to clean up droplet", "An error occurred"}
    /\ UNCHANGED <<droplets, snapshots, detaching, file, argVars, droplet_id, volume_ids, idx, snapshot_name,
                   snapshot_id, volume, calls, confirmed, lastFetch, myAction, lastWritten,
                   deletedWith>>

\* Lines 78-81: droplet.destroy() of the cleanup; its failure is only logged.
CleanupDestroy ==
    /\ pc = "c_cleanup_destroy"
    /\ calls' = Append(calls, Call("destroy", droplet_id, None, None))
    /\ \E ok \in Outcomes :
          IF ok
          THEN /\ droplets' = [droplets EXCEPT ![droplet_id] = Deleted]
               /\ detaching' = {p \in detaching : p[1] # droplet_id}
               /\ deletedWith' = droplets[droplet_id].volume_ids
               /\ reported' = reported \cup {"Cleaned up droplet", "An error occurred"}
               /\ Propagate(FALSE)
          ELSE /\ reported' = reported \cup {"Failed to clean up droplet", "An error occurred"}
               /\ Propagate(TRUE)
               /\ UNCHANGED <<droplets, detaching, deletedWith>>
    /\ UNCHANGED <<snapshots, file, argVars, droplet_id, volume_ids, idx,
                   snapshot_name, snapshot_id, volume, reads, confirmed, lastFetch,
                   myAction, lastWritten>>

----------------------------------------------------------------------------
\* restore_droplet_from_snapshot (lines 131-165)

\* Lines 133-139: read the snapshot ID; without one, report and return.
ReadSnapshotInfo ==
    /\ pc = "r_read"
    /\ snapshot_id' = DictGet(read_snapshot_info(file), "SNAPSHOT_ID")
    /\ IF NoSnapshotId(snapshot_id')
       THEN /\ reported' = reported \cup {"No snapshot ID found"}
            /\ pc' = "done"
            /\ exitcode' = 0
       ELSE /\ pc' = "r_check"
            /\ UNCHANGED <<reported, exitcode>>
    /\ UNCHANGED <<provVars, file, argVars, droplet_id, volume_ids, idx, snapshot_name,
                   volume, exc, calls, reads, confirmed, lastFetch, myAction, lastWritten,
                   deletedWith>>

\* Lines 141-147: manager.get_image(snapshot_id); NotFoundError is reported
\* and the function returns, any other exception propagates.
GetImage ==
    /\ pc = "r_check"
    /\ reads' = reads \cup {<<"get_image", snapshot_id>>}
    /\ \E ok \in Outcomes :
          IF ~ok
          THEN Raise("ProviderError")
          ELSE IF SnapshotExists(snapshot_id)
          THEN /\ pc' = "r_keys"
               /\ reported' = reported \cup {"Snapshot found"}
               /\ UNCHANGED <<exc, exitcode>>
          ELSE /\ pc' = AfterNotFound
               /\ exitcode' = IF pc' = "done" THEN 0 ELSE exitcode
               /\ reported' = reported \cup {"Snapshot ID not found"}
               /\ UNCHANGED exc
    /\ UNCHANGED <<provVars, file, argVars, droplet_id, volume_ids, idx, snapshot_name,
                   snapshot_id, volume, calls, confirmed, lastFetch, myAction, lastWritten,
                   deletedWith>>

\* Line 149: manager.get_all_sshkeys().
RestoreKeys ==
    /\ pc = "r_keys"
    /\ reads' = reads \cup {<<"get_all_sshkeys", None>>}
    /\ \E ok \in Outcomes :
          IF ok
          THEN pc' = "r_create" /\ UNCHANGED <<exc, exitcode, reported>>
          ELSE Raise("ProviderError")
    /\ UNCHANGED <<provVars, file, argVars, droplet_id, volume_ids, idx, snapshot_name,
                   snapshot_id, volume, calls, confirmed, lastFetch, myAction, lastWritten,
                   deletedWith>>

\* Lines 152-162: droplet.create() from the snapshot with the configured volume.
RestoreCreate ==
    /\ pc = "r_create"
    /\ \E ok \in Outcomes :
          IF ok /\ Attachable(volume)
          THEN /\ droplets' = Append(droplets, NewDroplet(snapshot_id, volume))
               /\ droplet_id' = Len(droplets) + 1
               /\ myAction' = 1
               /\ calls' = Append(calls, Call("create_droplet", Len(droplets) + 1, snapshot_id, volume))
               /\ pc' = "r_wait"
               /\ UNCHANGED <<exc, exitcode, reported>>
          ELSE /\ calls' = Append(calls, Call("create_droplet", None, snapshot_id, volume))
               /\ Raise("ProviderError")
               /\ UNCHANGED <<droplets, droplet_id, myAction>>
    /\ lastFetch' = NoFetch
    /\ UNCHANGED <<nVolumes, snapshots, detaching, file, argVars, volume_ids, idx,
                   snapshot_name, snapshot_id, volume, reads, confirmed, lastWritten,
                   deletedWith>>

\* Line 165: wait_for_action_completion(droplet, 'create'), one iteration.
WaitRestore ==
    /\ pc = "r_wait"
    /\ \E ok \in Outcomes :
          IF ok
          THEN /\ PollActions("create", "done")
               /\ exitcode' = IF pc' = "done" THEN 0 ELSE exitcode
               /\ UNCHANGED <<exc, reported>>
          ELSE Raise("ProviderError") /\ UNCHANGED <<reads, lastFetch>>
    /\ UNCHANGED <<provVars, file, argVars, droplet_id, volume_ids, idx, snapshot_name,
                   snapshot_id, volume, calls, confirmed, myAction, lastWritten, deletedWith>>

----------------------------------------------------------------------------
\* The provider, on its own schedule

runVars == <<pc, droplet_id, volume_ids, idx, snapshot_name, snapshot_id, volume, exc,
             exitcode, reported, calls, reads, confirmed, lastFetch, myAction, deletedWith>>

\* An action in progress completes or errors; a completed snapshot action
\* adds the snapshot, under the requested name, to the account's listing.
ProviderFinish ==
    /\ pc # "done"
    /\ \E d \in 1..Len(droplets) :
       \E k \in 1..Len(droplets[d].actions), status \in {"completed", "errored"} :
          /\ droplets[d].alive
          /\ droplets[d].actions[k].status = "in-progress"
          /\ droplets' = [droplets EXCEPT ![d].actions[k].status = status]
          /\ snapshots' = IF droplets[d].actions[k].type = "snapshot" /\ status = "completed"
                          THEN Append(snapshots, [name |-> droplets[d].actions[k].name,
                                                  id |-> Len(snapshots) + 1])
                          ELSE snapshots
    /\ UNCHANGED <<nVolumes, detaching, file, argVars, runVars, lastWritten>>

\* A requested detachment is carried out: the volume leaves the droplet's list.
ProviderDetach ==
    /\ pc # "done"
    /\ \E p \in detaching :
          /\ droplets' = [droplets EXCEPT ![p[1]].volume_ids = @ \ {p[2]}]
          /\ detaching' = detaching \ {p}
    /\ UNCHANGED <<nVolumes, snapshots, file, argVars, runVars, lastWritten>>

----------------------------------------------------------------------------
Next ==
    \/ Main \/ Exit
    \/ GetDroplet \/ Shutdown \/ WaitShutdown \/ LoadDroplet \/ Detach \/ WaitDetach
    \/ SkipSnapshot \/ TakeSnapshot \/ WaitSnapshot \/ ResolveSnapshot \/ DestroyDroplet
    \/ CreateVolume \/ GetKeys \/ CreateDroplet \/ WaitCreate \/ CleanupLookup \/ CleanupDestroy
    \/ ReadSnapshotInfo \/ GetImage \/ RestoreKeys \/ RestoreCreate \/ WaitRestore
    \/ ProviderFinish \/ ProviderDetach

Spec == Init /\ [][Next]_vars

----------------------------------------------------------------------------
\* Properties

Ops(op) == SelectSeq(calls, LAMBDA c : c.op = op)
Issued(op) == Len(Ops(op)) > 0
IsPrefix(s, t) == Len(s) <= Len(t) /\ \A k \in 1..Len(s) : s[k] = t[k]
Ids(s) == [k \in 1..Len(s) |-> s[k].id]

\* The shutdown action this destroy run requested: the latest of the droplet.
OwnShutdown ==
    LET actions == droplets[droplet_id].actions
        k == CHOOSE k \in 1..Len(actions) :
                /\ actions[k].type = "shutdown"
                /\ \A j \in (k + 1)..Len(actions) : actions[j].type # "shutdown"
    IN  actions[k]

\* C1 (as claimed): in a destroy run, once a detach request or the snapshot
\* request has been issued, or while a detach-confirmation poll runs, the
\* shutdown action requested by this run has status 'completed'.
C1_SnapshotAfterOwnShutdown ==
    (/\ command = "destroy"
     /\ Exists(droplet_id)
     /\ Issued("detach") \/ Issued("snapshot") \/ pc = "d_wait_detach")
    => OwnShutdown.status = "completed"

\* The volume IDs the droplet lists at the instance deletion call.
AttachedAtDeletion ==
    IF Exists(droplet_id) THEN droplets[droplet_id].volume_ids ELSE deletedWith

\* C2: in a destroy run, with or without skip_snapshot, once the instance
\* deletion call has been issued every volume the droplet listed after
\* shutdown has been observed absent by its poll, and the droplet lists no
\* volume when it is deleted.
C2_DeleteAfterDetach ==
    (command = "destroy" /\ Issued("destroy"))
    => /\ Range(volume_ids) \subseteq Range(confirmed)
       /\ AttachedAtDeletion = {}

C2_Witness ==
    /\ command = "destroy" /\ pc = "done" /\ exitcode = 0
    /\ Len(volume_ids) = 2
    /\ Issued("destroy")

\* C3: a destroy run with skip_snapshot leaves snapshot_info.json as it was
\* when the run started and issues no snapshot request.
C3_SkipLeavesRecord ==
    (command = "destroy" /\ skip_snapshot)
    => /\ file = file0
       /\ ~Issued("snapshot")

C3_Witness ==
    /\ command = "destroy" /\ skip_snapshot
    /\ pc = "done" /\ exitcode = 0
    /\ file0.exists

\* C4: once update_snapshot_info has written an ID, a restore run reads
\* exactly the ID written last, checks that ID with get_image and provisions
\* its droplet with that ID as the image.
C4_RoundTrip ==
    (command = "restore" /\ lastWritten # None /\ exc # "config")
    => /\ pc # "r_read" => snapshot_id = lastWritten
       /\ \A r \in reads : r[1] = "get_image" => r[2] = lastWritten
       /\ \A k \in 1..Len(calls) :
             calls[k].op = "create_droplet" =>
                /\ calls[k].image = lastWritten
                /\ calls[k].id # None => droplets[calls[k].id].image = lastWritten

C4_Witness ==
    /\ command = "restore" /\ pc = "r_wait"
    /\ lastWritten \notin {None, StaleSnapshot}
    /\ file0 # update_snapshot_info(StaleSnapshot)
    /\ <<"get_image", lastWritten>> \in reads
    /\ droplets[droplet_id].image = lastWritten

\* snapshot_info.json holds no SNAPSHOT_ID: the file is absent or lacks the key.
NoRecord(f) == ~f.exists \/ \A p \in f.content : p[1] # "SNAPSHOT_ID"

\* C5: a restore run started without a persisted snapshot ID issues no
\* provider mutation call, leaves snapshot_info.json as it was (absent stays
\* absent) and ends having reported that no snapshot ID was found.
C5_RestoreWithoutRecord ==
    (command = "restore" /\ exc # "config" /\ NoRecord(file0))
    => /\ calls = <<>>
       /\ file = file0
       /\ pc = "done" => "No snapshot ID found" \in reported

C5_Witness ==
    /\ command = "restore" /\ pc = "done"
    /\ ~file0.exists /\ ~file.exists
    /\ "No snapshot ID found" \in reported

\* A create run that failed after droplet.create() had assigned an ID.
CreateFailedWithId ==
    command = "create" /\ pc = "done" /\ exitcode = 1 /\ droplet_id # None

\* C6 (as claimed): such a run has issued exactly one delete call, for that
\* ID, and the failure it propagates is the original one.
C6_ExactlyOneDelete ==
    CreateFailedWithId
    => /\ Len(Ops("destroy")) = 1
       /\ Ops("destroy")[1].id = droplet_id
       /\ exc = "poll raised"

\* C6 (amended): such a run has issued at most one delete call, and only for
\* that ID; it has issued none only if the cleanup failed (at its lookup of
\* the droplet) and that was logged; whether or not the cleanup failed, the
\* failure propagated is the original one.
C6_AtMostOneDelete ==
    CreateFailedWithId
    => /\ Len(Ops("destroy")) <= 1
       /\ \A k \in 1..Len(Ops("destroy")) : Ops("destroy")[k].id = droplet_id
       /\ Len(Ops("destroy")) = 0 => "Failed to clean up droplet" \in reported
       /\ exc = "poll raised"
       /\ "An error occurred" \in reported

C6_Witness ==
    /\ CreateFailedWithId
    /\ Len(Ops("destroy")) = 1
    /\ "Failed to clean up droplet" \in reported
    /\ Exists(droplet_id)

\* C7: a destroy run issues its detach calls one per listed volume, in the
\* list's order and none twice; past the first loop it has issued exactly one
\* per volume; the polls end one volume after the other, and all of them have
\* ended once the snapshot request or the instance deletion is issued.
C7_DetachEachOnce ==
    command = "destroy"
    => /\ IsPrefix(Ids(Ops("detach")), volume_ids)
       /\ IsPrefix(confirmed, volume_ids)
       /\ (pc \in {"d_wait_detach", "d_branch", "d_wait_snapshot", "d_resolve", "d_destroy"}
           \/ Issued("snapshot") \/ Issued("destroy"))
          => Ids(Ops("detach")) = volume_ids
       /\ (Issued("snapshot") \/ Issued("destroy")) => confirmed = volume_ids

C7_Witness ==
    /\ command = "destroy"
    /\ Len(volume_ids) = 2
    /\ Len(Ops("detach")) = 2
    /\ confirmed = volume_ids
    /\ Issued("snapshot") /\ Issued("destroy")

\* C8: the latest reload of the detach-confirmation poll for a volume ended
\* that poll if and only if the volume was absent from the reloaded list,
\* whatever else the list held; a poll still running has seen its volume
\* listed at every reload.
C8_DetachPollEndsWhenAbsent ==
    lastFetch.kind = "volume"
    => /\ lastFetch.ended <=> lastFetch.target \notin lastFetch.seen
       /\ lastFetch.ended <=> lastFetch.target \in Range(confirmed)
       /\ (pc = "d_wait_detach" /\ volume_ids[idx] = lastFetch.target) => ~lastFetch.ended

C8_Witness ==
    /\ lastFetch.kind = "volume"
    /\ lastFetch.ended
    /\ lastFetch.seen # {}
    /\ pc = "d_wait_detach"

WaitPcs == {"d_wait_shutdown", "d_wait_snapshot", "c_wait", "r_wait"}

\* C9: the latest fetch of wait_for_action_completion ended the poll if and
\* only if the fetched list held an entry of the awaited type with status
\* 'completed'; a poll still running has ended at none of its fetches.
C9_ActionPollEndsWhenCompleted ==
    lastFetch.kind = "actions"
    => /\ lastFetch.ended <=> <<lastFetch.target, "completed">> \in lastFetch.seen
       /\ pc \in WaitPcs => ~lastFetch.ended

C9_Witness ==
    /\ lastFetch.kind = "actions"
    /\ lastFetch.ended
    /\ lastFetch.target = "snapshot"
    /\ <<"snapshot", "errored">> \in lastFetch.seen
    /\ pc = "d_resolve"

\* C10: a destroy run that ends without an exception has exited with status
\* 0 after issuing the instance deletion exactly once, as its last provider
\* mutation, snapshot skipped or not; when it reported that no snapshot has
\* the chosen name, snapshot_info.json is as it was when the run started.
C10_DeletionLast ==
    (command = "destroy" /\ pc = "done" /\ exc = "none")
    => /\ exitcode = 0
       /\ Len(Ops("destroy")) = 1
       /\ calls[Len(calls)] = Call("destroy", droplet_id, None, None)
       /\ "No snapshot with name found" \in reported => file = file0

C10_Witness ==
    /\ command = "destroy" /\ pc = "done" /\ exc = "none"
    /\ "No snapshot with name found" \in reported
    /\ Issued("snapshot")
    /\ ~Exists(droplet_id)


\* snapshot_info.json as it was at run start holds an ID the provider does not list.
RecordedSnapshotGone ==
    /\ ~NoRecord(file0)
    /\ \A k \in 1..Len(snapshots) : snapshots[k].id # DictGet(file0.content, "SNAPSHOT_ID")

\* C11: a restore run whose persisted snapshot ID is not on the provider gets
\* no further than the lookup: it issues no provider mutation call, starts no
\* create poll, leaves snapshot_info.json as it was, and, when the lookup
\* answered, ends having reported that the snapshot ID was not found.
C11_RestoreSnapshotGone ==
    (command = "restore" /\ exc # "config" /\ RecordedSnapshotGone)
    => /\ pc \in {"r_read", "r_check", "done"}
       /\ calls = <<>>
       /\ \A r \in reads : r[1] # "get_actions"
       /\ file = file0
       /\ (pc = "done" /\ exc = "none") => "Snapshot ID not found" \in reported

C11_Witness ==
    /\ command = "restore" /\ pc = "done" /\ exc = "none"
    /\ RecordedSnapshotGone
    /\ <<"get_image", StaleSnapshot>> \in reads
    /\ "Snapshot ID not found" \in reported


\* The exceptions raised in the try block of create_droplet.
CreateFailures == {"get_all_sshkeys raised", "droplet.create raised", "poll raised"}

\* cleanup_droplet has run in this run: it looked the droplet up.
CleanupAttempted == \E r \in reads : r[1] = "get_droplet"

\* C12 (as claimed): every create run that failed in create_droplet, at
\* whichever step, has attempted the compensating delete; a successful create
\* has issued no delete.
C12_CleanupAtEveryStep ==
    (command = "create" /\ pc = "done")
    => /\ exc \in CreateFailures => CleanupAttempted
       /\ exitcode = 0 => ~Issued("destroy")

\* C12 (amended): a create run that failed at droplet.create() or at the
\* create-action poll has run cleanup_droplet, with at most one delete call
\* and that one for the created droplet; after a failed droplet.create() the
\* droplet has no ID, the cleanup's lookup fails and no delete call is
\* issued; a run that failed at listing the SSH keys has attempted no cleanup;
\* a successful create has issued no delete and attempted no cleanup.
C12_CleanupOnceObjectBuilt ==
    (command = "create" /\ pc = "done")
    => /\ exc \in {"droplet.create raised", "poll raised"} =>
             /\ <<"get_droplet", droplet_id>> \in reads
             /\ Len(Ops("destroy")) <= 1
             /\ \A k \in 1..Len(Ops("destroy")) : Ops("destroy")[k].id = droplet_id
             /\ exitcode = 1
       /\ exc = "droplet.create raised" =>
             /\ droplet_id = None
             /\ ~Issued("destroy")
             /\ "Failed to clean up droplet" \in reported
       /\ exc = "get_all_sshkeys raised" =>
             /\ ~CleanupAttempted
             /\ ~Issued("destroy")
             /\ exitcode = 1
       /\ exitcode = 0 => (~Issued("destroy") /\ ~CleanupAttempted)

C12_Witness ==
    /\ command = "create" /\ pc = "done"
    /\ exc = "droplet.create raised"
    /\ <<"get_droplet", None>> \in reads
    /\ "Failed to clean up droplet" \in reported


\* A failure occurred in the run: an exception was raised, or restore found
\* no persisted snapshot ID, or the persisted ID names no snapshot.
RunFailed ==
    \/ exc # "none"
    \/ "No snapshot ID found" \in reported
    \/ "Snapshot ID not found" \in reported

\* C13 (as claimed): every run in which a failure occurred ends with exit
\* status 1, restore's missing or unknown snapshot ID included.
C13_FailureExitsNonZero == (pc = "done" /\ RunFailed) => exitcode = 1


\* C14 (as claimed): a run started without an API credential, or with a
\* missing or malformed config.json, fails fast: it exits with status 1
\* having invoked no provider operation, read or mutation.
C14_FailFastWithoutCredential ==
    (pc = "done" /\ (~token \/ exc = "config"))
    => /\ exitcode = 1
       /\ calls = <<>>
       /\ reads = {}


\* C15 (as claimed): the record changes only in a destroy run without
\* skip_snapshot, after the poll has listed this run's own snapshot action as
\* completed, and it then holds the ID of the snapshot resolved by name.
C15_WriteAfterOwnSnapshotCompleted ==
    file # file0
    => /\ command = "destroy"
       /\ ~skip_snapshot
       /\ lastFetch.kind = "actions"
       /\ lastFetch.target = "snapshot"
       /\ lastFetch.ended
       /\ lastFetch.own = "completed"
       /\ file = update_snapshot_info(lastWritten)


\* The successful volume creation calls of this run.
VolumesCreated == {Ops("create_volume")[k].id : k \in 1..Len(Ops("create_volume"))} \ {None}

\* The last fetch of the create-action poll ended the poll on this run's own
\* create action listed as completed.
CreateObservedCompleted ==
    /\ lastFetch.kind = "actions"
    /\ lastFetch.target = "create"
    /\ lastFetch.ended
    /\ lastFetch.own = "completed"
    /\ droplets[droplet_id].actions[myAction].type = "create"

\* C16: in a create run the first provider call is the volume creation, every
\* droplet creation call comes after it and passes exactly the created
\* volume's ID, the droplet is created holding that volume, and the run
\* returns successfully only after its create action was listed completed;
\* in a restore run the droplet creation call passes the volume ID of the
\* configuration and the recorded snapshot as image, and the run returns
\* from a creation only after the create action was listed completed.
C16_VolumeThenDropletThenWait ==
    /\ command = "create" =>
          /\ \A k \in 1..Len(calls) : calls[k].op = "create_droplet" =>
                /\ k > 1
                /\ calls[1].op = "create_volume"
                /\ VolumesCreated = {calls[k].volume}
                /\ calls[k].volume = volume
                /\ calls[k].image = BaseImage
          /\ pc = "c_wait" => droplets[droplet_id].volume_ids = {volume}
          /\ (pc = "done" /\ exitcode = 0) =>
                /\ Len(Ops("create_droplet")) = 1
                /\ Ops("create_droplet")[1].id = droplet_id
                /\ droplets[droplet_id].volume_ids = {volume}
                /\ CreateObservedCompleted
    /\ command = "restore" =>
          /\ \A k \in 1..Len(calls) : calls[k].op = "create_droplet" =>
                /\ calls[k].volume = ConfigVolume
                /\ calls[k].image = DictGet(file0.content, "SNAPSHOT_ID")
          /\ pc = "r_wait" => droplets[droplet_id].volume_ids = {ConfigVolume}
          /\ (pc = "done" /\ exitcode = 0 /\ Issued("create_droplet")) =>
                /\ Ops("create_droplet")[1].id = droplet_id
                /\ CreateObservedCompleted

C16_Witness ==
    /\ command = "create" /\ pc = "done" /\ exitcode = 0
    /\ Len(calls) = 2
    /\ calls[2].op = "create_droplet" /\ calls[2].volume = calls[1].id
    /\ CreateObservedCompleted


\* The droplet ID given to this destroy run names no droplet of the provider
\* (never assigned, or deleted before this run).
DropletUnknown ==
    /\ command = "destroy"
    /\ exc # "config"
    /\ ~Issued("destroy")
    /\ droplet_id \notin 1..Len(droplets) \/ ~droplets[droplet_id].alive

\* C17: a destroy run for an ID that names no droplet stops at the lookup: it
\* issues no shutdown, detach, snapshot or delete call, leaves the record as
\* it was, and ends with exit status 1, with NotFound when the lookup itself
\* went through.
C17_UnknownDropletStopsAtLookup ==
    DropletUnknown
    => /\ pc \in {"d_lookup", "done"}
       /\ calls = <<>>
       /\ file = file0
       /\ pc = "done" =>
             /\ exitcode = 1
             /\ exc \in {"NotFound", "ProviderError"}
             /\ <<"get_droplet", droplet_id>> \in reads
             /\ "An error occurred" \in reported

C17_Witness ==
    /\ DropletUnknown
    /\ pc = "done"
    /\ exc = "NotFound"
    /\ <<"get_droplet", droplet_id>> \in reads


\* C18 (as claimed): a run with an unknown or a missing sub-command prints
\* the usage message and exits with status 1, with no provider mutation call
\* and the record untouched.
C18_UsageOnUnknownOrMissing ==
    (pc = "done" /\ command \in {"none", "bogus"})
    => /\ "Usage" \in reported
       /\ exitcode = 1
       /\ calls = <<>>
       /\ file = file0

\* C18 (amended): a run with an unknown or a missing sub-command ends at once
\* with exit status 1, no provider call of any kind and the record untouched;
\* with config.json readable, a missing sub-command prints the usage message
\* and an unknown one prints "Invalid command." instead; with config.json
\* unreadable the configuration error is what is printed.
C18_UnknownOrMissingExits ==
    (pc # "idle" /\ command \in {"none", "bogus"})
    => /\ pc = "done"
       /\ exitcode = 1
       /\ calls = <<>>
       /\ reads = {}
       /\ file = file0
       /\ (exc = "none" /\ command = "none") => reported = {"Usage"}
       /\ (exc = "none" /\ command = "bogus") => reported = {"Invalid command"}
       /\ exc # "none" => (exc = "config" /\ reported = {"An error occurred"})

C18_Witness ==
    /\ pc = "done" /\ command = "bogus" /\ exc = "none"
    /\ reported = {"Invalid command"}
    /\ exitcode = 1


\* The latest fetch of the action poll listed this run's own action as
\* errored and no action of the awaited type as completed.
SawOwnErrored ==
    /\ lastFetch.kind = "actions"
    /\ lastFetch.own = "errored"
    /\ <<lastFetch.target, "completed">> \notin lastFetch.seen

\* C19: a fetch that lists the awaited shutdown, snapshot or create action as
\* errored, and no action of that type as completed, does not end the poll
\* and raises nothing: the run stays in wait_for_action_completion, has not
\* exited successfully, and has issued none of its later steps (after an
\* errored shutdown no detach, snapshot or deletion call, after an errored
\* snapshot no deletion call, and no record write in either case).  The only
\* way out of the poll is an exception raised by a provider call of the poll.
C19_ErroredKeepsPolling ==
    SawOwnErrored
    => /\ ~lastFetch.ended
       /\ pc \in WaitPcs \/ exc \in {"ProviderError", "poll raised"}
       /\ exitcode # 0
       /\ pc \in WaitPcs => exitcode = -1
       /\ lastFetch.target = "shutdown" =>
             /\ ~Issued("detach") /\ ~Issued("snapshot") /\ ~Issued("destroy")
             /\ file = file0
       /\ lastFetch.target = "snapshot" =>
             /\ ~Issued("destroy")
             /\ file = file0
       /\ (lastFetch.target = "create" /\ pc \in WaitPcs) => ~Issued("destroy")

C19_Witness ==
    /\ SawOwnErrored
    /\ pc = "d_wait_snapshot"
    /\ lastFetch.target = "snapshot"
    /\ droplets[droplet_id].actions[myAction].status = "errored"


\* The provider operations the program invokes that change something.
MutationOps == {"create_volume", "create_droplet", "shutdown", "detach", "snapshot", "destroy"}

\* C20: no operation deletes a volume: every call the program issues is a
\* volume or droplet creation, a shutdown, a detachment, a snapshot or a
\* droplet deletion; the account never holds fewer volumes than it started
\* with plus those this run created; and the volume a create run provisioned
\* exists at every later point of the run, after a failed droplet creation
\* and its cleanup included.
C20_VolumeNeverDeleted ==
    /\ \A k \in 1..Len(calls) : calls[k].op \in MutationOps
    /\ nVolumes >= InitVolumes + Cardinality(VolumesCreated)
    /\ (command = "create" /\ volume # None) => volume \in 1..nVolumes
    /\ \A d \in 1..Len(droplets) : droplets[d].volume_ids \subseteq 1..nVolumes

C20_Witness ==
    /\ command = "create" /\ pc = "done"
    /\ exc = "poll raised"
    /\ "Cleaned up droplet" \in reported
    /\ ~droplets[droplet_id].alive
    /\ volume = nVolumes

====
